---- MODULE Spec2Model ----
(***************************************************************************)
(* Model of the Contract Management Python SDK client                      *)
(* (docs/sdk/python/contract_sdk/client.py).                               *)
(*                                                                         *)
(* Spec      : one ContractManagementClient used by one caller.  Each      *)
(*             HTTP exchange of _make_request is one step; the recursion   *)
(*             _make_request -> _refresh_access_token -> _make_request is  *)
(*             the frame stack `stack`.                                    *)
(* SpecPayload: the request-shaping and filename-deriving methods, applied *)
(*             to inputs drawn from bounded sets.                          *)
(* SpecConc  : two callers sharing one client, each running _make_request  *)
(*             once; every read and write of self.access_token and         *)
(*             self.refresh_token is a step of its own.                    *)
(***************************************************************************)
EXTENDS Integers, Sequences, FiniteSets, TLC

VARIABLES
    access_token,   \* self.access_token
    refresh_token,  \* self.refresh_token
    stack,          \* active _make_request frames, outermost first
    pc,             \* "idle" | "wait" (a request is in flight) | "mr_done"
    op,             \* the public method being executed
    prevOp,         \* the public method executed before it
    log,            \* requests sent during the current call (history)
    answers,        \* answers received during the current call (history)
    startTok,       \* <<access_token, refresh_token>> when the call began
    mres,           \* what the outermost _make_request returned or raised
    outcome,        \* what the public method returned or raised
    nextTok,        \* id of the next token pair the server issues
    pcall,          \* SpecPayload: the last shaping call and its inputs
    pres,           \* SpecPayload: what that call produced
    thr,            \* SpecConc: each caller's position in _make_request
    lock,           \* SpecConc: the callers holding the mutex (none or one)
    guarded         \* SpecConc: whether the callers use the mutex

vars == <<access_token, refresh_token, stack, pc, op, prevOp, log, answers,
          startTok, mres, outcome, nextTok, pcall, pres, thr, lock, guarded>>

authVars == <<access_token, refresh_token, stack, pc, op, prevOp, log, answers,
              startTok, mres, outcome, nextTok>>

payloadVars == <<pcall, pres>>

concVars == <<thr, lock, guarded>>

\* what the calls of one caller at a time record; SpecConc leaves it alone
seqVars == <<stack, pc, op, prevOp, log, answers, startTok, mres, outcome>>

-----------------------------------------------------------------------------
(* Bounds *)

\* Depth of nested _make_request frames at which the interpreter's recursion
\* limit is hit and RecursionError is raised.
MaxDepth == 3

\* Number of token-carrying responses the server issues in one behaviour.
MaxTok == 2

-----------------------------------------------------------------------------
(* Values *)

\* Python None for a token attribute.
None == 0

\* The access token the caller may pass to the constructor.
CallerTok == MaxTok + 1

NoHeader == <<>>

Bearer(tok) == <<"Bearer", tok>>

NoCode == <<>>

\* pres before the method has run
Pending == <<>>

Ops == {"login", "logout", "api"}

ErrStatuses == {400, 401, 500}

ErrBodies == {"coded", "uncoded", "nonjson"}

\* Bodies of a 2xx answer: a JSON object with both token fields, with one of
\* them, with neither, or no content at all.
TokenBodies == {"both", "accessOnly", "refreshOnly", "neither", "empty"}

OkBodies(ep) == IF ep \in {"login", "refresh"} THEN TokenBodies ELSE {"neither", "empty"}

IssuesToken(body) == body \in {"both", "accessOnly", "refreshOnly"}

NoResult == [kind |-> "none", status |-> 0, code |-> NoCode, body |-> "none", tok |-> None]

OkResult(a) == [kind |-> "ok", status |-> a.status, code |-> NoCode, body |-> a.body, tok |-> a.tok]

Raised(kind, status, code) ==
    [kind |-> kind, status |-> status, code |-> code, body |-> "none", tok |-> None]

-----------------------------------------------------------------------------
(* _make_request, _handle_error, _refresh_access_token *)

\* headers = {}; if self.access_token: headers['Authorization'] = ...
InitialHeader(at) == IF at # None THEN Bearer(at) ELSE NoHeader

ResendHeaderStale(hdr, at) == hdr

\* headers['Authorization'] = f'Bearer {self.access_token}' before the resend
ResendHeader(hdr, at) == Bearer(at)

ShouldRefreshAny401(status, rt) == status = 401

\* if response.status_code == 401 and self.refresh_token:
ShouldRefresh(status, rt) == status = 401 /\ rt # None

\* raise_for_status(): HTTPError for 4xx and 5xx
RaisesForStatus(status) == status >= 400 /\ status < 600

\* _handle_error: code from the JSON body, else HTTP_<status>
ErrorCode(status, body) ==
    CASE body = "coded"   -> <<"INVALID_TITLE">>
      [] body = "uncoded" -> <<"UNKNOWN_ERROR">>
      [] OTHER            -> <<"HTTP_", status>>

\* _handle_error: the exception class chosen from the status
ErrorKind(status) ==
    IF status = 401 THEN "AuthenticationError"
    ELSE IF status = 400 THEN "ValidationError"
    ELSE "APIError"

HandleError(a) == Raised(ErrorKind(a.status), a.status, ErrorCode(a.status, a.body))

\* the except clauses of _make_request for an exchange without a response
TransportError(a) ==
    IF a.kind \in {"conn", "timeout"} THEN Raised("NetworkError", 0, NoCode)
    ELSE Raised("APIError", 0, NoCode)

StoreTokensDropsRefresh(body, tok, at, rt) ==
    CASE body \in {"both", "accessOnly"} -> [at |-> tok, rt |-> rt, err |-> "none"]
      [] body = "empty"                  -> [at |-> at,  rt |-> rt, err |-> "TypeError"]
      [] OTHER                           -> [at |-> at,  rt |-> rt, err |-> "KeyError"]

\* self.access_token = data['accessToken']; self.refresh_token = data['refreshToken']
\* applied to the tokens <<at, rt>>; err is the exception the subscripts raise.
StoreTokens(body, tok, at, rt) ==
    CASE body = "both"       -> [at |-> tok, rt |-> tok, err |-> "none"]
      [] body = "accessOnly" -> [at |-> tok, rt |-> rt,  err |-> "KeyError"]
      [] body = "empty"      -> [at |-> at,  rt |-> rt,  err |-> "TypeError"]
      [] OTHER               -> [at |-> at,  rt |-> rt,  err |-> "KeyError"]

Frame(ep, hdr, rt) == [ep |-> ep, phase |-> 1, hdr |-> hdr, rt |-> rt]

Sent(ep, hdr, held, rt) == [ep |-> ep, auth |-> hdr, held |-> held, rt |-> rt]

Top == stack[Len(stack)]

\* An exception that no frame catches unwinds every _make_request frame.
Unwind(r) ==
    /\ stack' = <<>>
    /\ pc' = "mr_done"
    /\ mres' = r
    /\ UNCHANGED <<access_token, refresh_token, log>>

\* The answers the server or the transport can give to a request to ep.
Answers(ep) ==
    [kind : {"http"}, status : {200}, body : OkBodies(ep), tok : {None}]
    \cup [kind : {"http"}, status : ErrStatuses, body : ErrBodies, tok : {None}]
    \cup [kind : {"conn", "timeout", "reqexc"}, status : {0}, body : {"none"}, tok : {None}]

\* A public method starts: the first self.session.request of _make_request.
Call(o) ==
    /\ pc = "idle"
    /\ op' = o
    /\ prevOp' = op
    /\ stack' = <<Frame(o, InitialHeader(access_token), None)>>
    /\ log' = <<Sent(o, InitialHeader(access_token), access_token, None)>>
    /\ answers' = <<>>
    /\ startTok' = <<access_token, refresh_token>>
    /\ mres' = NoResult
    /\ outcome' = NoResult
    /\ pc' = "wait"
    /\ UNCHANGED <<access_token, refresh_token, nextTok, payloadVars, concVars>>

\* 401 with a refresh token on the first response of a frame:
\* _refresh_access_token() calls _make_request('POST', '/auth/refresh', ...).
StartRefresh ==
    IF refresh_token = None
    THEN Unwind(Raised("AuthenticationError", 0, NoCode))
    ELSE IF Len(stack) >= MaxDepth
    THEN Unwind(Raised("RecursionError", 0, NoCode))
    ELSE /\ stack' = Append(stack, Frame("refresh", InitialHeader(access_token), refresh_token))
         /\ log' = Append(log, Sent("refresh", InitialHeader(access_token), access_token, refresh_token))
         /\ UNCHANGED <<access_token, refresh_token, pc, mres>>

\* The nested refresh request returned data to _refresh_access_token, which
\* stores the tokens; the frame below then resends its request.
RefreshReturns(a) ==
    LET st     == StoreTokens(a.body, a.tok, access_token, refresh_token)
        parent == stack[Len(stack) - 1]
        hdr    == ResendHeader(parent.hdr, st.at)
    IN  /\ access_token' = st.at
        /\ refresh_token' = st.rt
        /\ IF st.err # "none"
           THEN /\ stack' = <<>>
                /\ pc' = "mr_done"
                /\ mres' = Raised(st.err, 0, NoCode)
                /\ log' = log
           ELSE /\ stack' = Append(SubSeq(stack, 1, Len(stack) - 2),
                                   [parent EXCEPT !.phase = 2, !.hdr = hdr])
                /\ log' = Append(log, Sent(parent.ep, hdr, st.at, parent.rt))
                /\ UNCHANGED <<pc, mres>>

\* The final response of a frame: raise_for_status, then return the data.
Finish(a) ==
    IF a.kind # "http" THEN Unwind(TransportError(a))
    ELSE IF RaisesForStatus(a.status) THEN Unwind(HandleError(a))
    ELSE IF Len(stack) = 1
    THEN /\ stack' = <<>>
         /\ pc' = "mr_done"
         /\ mres' = OkResult(a)
         /\ UNCHANGED <<access_token, refresh_token, log>>
    ELSE RefreshReturns(a)

\* The request in flight is answered.
Answer ==
    /\ pc = "wait"
    /\ \E a0 \in Answers(Top.ep) :
         /\ IssuesToken(a0.body) => nextTok <= MaxTok
         /\ LET a == IF IssuesToken(a0.body) THEN [a0 EXCEPT !.tok = nextTok] ELSE a0
            IN  /\ answers' = Append(answers, a)
                /\ nextTok' = IF IssuesToken(a.body) THEN nextTok + 1 ELSE nextTok
                /\ IF a.kind = "http" /\ Top.phase = 1 /\ ShouldRefresh(a.status, refresh_token)
                   THEN StartRefresh
                   ELSE Finish(a)
    /\ UNCHANGED <<op, prevOp, startTok, outcome, payloadVars, concVars>>

\* login: response = self._make_request(...); store both tokens; return response
LoginEffect(r, at, rt) ==
    IF r.kind # "ok" THEN [at |-> at, rt |-> rt, out |-> r]
    ELSE LET st == StoreTokens(r.body, r.tok, at, rt)
         IN  [at |-> st.at, rt |-> st.rt,
              out |-> IF st.err = "none" THEN r ELSE Raised(st.err, 0, NoCode)]

LogoutClearsOnSuccess(r, at, rt) ==
    IF r.kind = "ok" THEN <<None, None>> ELSE <<at, rt>>

\* logout: finally: self.access_token = None; self.refresh_token = None
LogoutTokens(r, at, rt) == <<None, None>>

LogoutSwallows(r) == IF r.kind = "ok" THEN r ELSE [NoResult EXCEPT !.kind = "ok"]

\* logout: try/finally has no except clause: the exception continues
LogoutOutcome(r) == r

LoginReturn ==
    /\ pc = "mr_done" /\ op = "login"
    /\ LET e == LoginEffect(mres, access_token, refresh_token)
       IN  /\ access_token' = e.at
           /\ refresh_token' = e.rt
           /\ outcome' = e.out
    /\ pc' = "idle"
    /\ UNCHANGED <<stack, op, prevOp, log, answers, startTok, mres, nextTok, payloadVars, concVars>>

LogoutReturn ==
    /\ pc = "mr_done" /\ op = "logout"
    /\ access_token' = LogoutTokens(mres, access_token, refresh_token)[1]
    /\ refresh_token' = LogoutTokens(mres, access_token, refresh_token)[2]
    /\ outcome' = LogoutOutcome(mres)
    /\ pc' = "idle"
    /\ UNCHANGED <<stack, op, prevOp, log, answers, startTok, mres, nextTok, payloadVars, concVars>>

\* every other method: return self._make_request(...)
ApiReturn ==
    /\ pc = "mr_done" /\ op = "api"
    /\ outcome' = mres
    /\ pc' = "idle"
    /\ UNCHANGED <<access_token, refresh_token, stack, op, prevOp, log, answers,
                   startTok, mres, nextTok, payloadVars, concVars>>

InitAuth ==
    /\ access_token \in {None, CallerTok}
    /\ refresh_token = None
    /\ stack = <<>>
    /\ pc = "idle"
    /\ op = "none"
    /\ prevOp = "none"
    /\ log = <<>>
    /\ answers = <<>>
    /\ startTok = <<None, None>>
    /\ mres = NoResult
    /\ outcome = NoResult
    /\ nextTok = 1

Init ==
    /\ InitAuth
    /\ pcall = [m |-> "none"]
    /\ pres = Pending
    /\ thr = <<>>
    /\ lock = {}
    /\ guarded = FALSE

Next ==
    \/ \E o \in Ops : Call(o)
    \/ Answer
    \/ LoginReturn
    \/ LogoutReturn
    \/ ApiReturn

Spec == Init /\ [][Next]_vars

-----------------------------------------------------------------------------
(* Request shaping and file naming (SpecPayload) *)

\* Longest Content-Disposition header value, in symbols.
MaxHdr == 4

\* An argument is omitted (Python None), supplied but falsy ("", [], {} or 0),
\* or supplied with a truthy value.
ArgVals == {"None", "empty", "val"}

Truthy(v) == v = "val"

OptFields == {"description", "value", "currency", "start_date", "end_date",
              "content", "parties", "metadata", "tags"}

\* The JSON key create_contract uses for a parameter.
KeyOf(f) ==
    CASE f = "start_date" -> "startDate"
      [] f = "end_date"   -> "endDate"
      [] OTHER            -> f

IncludesByTruthiness(f, v) == Truthy(v)

\* create_contract: `if value is not None:` for value, `if <field>:` for the rest
Includes(f, v) == IF f = "value" THEN v # "None" ELSE Truthy(v)

\* create_contract: data = {'title': ..., 'type': ...} plus the included optionals
CreateContractData(title, type, args) ==
    LET present == {f \in OptFields : Includes(f, args[f])}
        keys    == {"title", "type"} \cup {KeyOf(f) : f \in present}
    IN  [k \in keys |->
            IF k = "title" THEN title
            ELSE IF k = "type" THEN type
            ELSE args[CHOOSE f \in present : KeyOf(f) = k]]

\* _make_request: files -> multipart; elif data is not None -> json.dumps(data)
\* (files and data are <<"None">> or <<"dict", d>>)
RequestBody(files, data) ==
    IF files[1] # "None" THEN <<"multipart", files[2]>>
    ELSE IF data[1] # "None" THEN <<"json", data[2]>>
    ELSE <<"nobody">>

\* Fields a caller may pass as keyword arguments to an update method.
UpdFields == {"title", "status", "value"}

Kwargs == UNION {[d -> ArgVals] : d \in SUBSET UpdFields}

\* Content-Disposition values: "F" is the text filename=, "Q" a double quote,
\* ";" a semicolon and "x" any other character; <<>> is the absent header.
HdrSyms == {"F", "Q", "x", ";"}

Headers == UNION {[1..n -> HdrSyms] : n \in 0..MaxHdr}

OutVal == <<"out.bin">>

PyNone == <<"None">>

Dict(d) == <<"dict", d>>

RECURSIVE ScanTo(_, _, _)
\* first position from i on that is past the end of s or holds a symbol of stops
ScanTo(s, i, stops) ==
    IF i > Len(s) \/ s[i] \in stops THEN i ELSE ScanTo(s, i + 1, stops)

\* filename="?([^"]+)"? tried at position i: where group 1 starts, 0 for no match
GroupStart(s, i) ==
    IF s[i] # "F" THEN 0
    ELSE IF i + 1 <= Len(s) /\ s[i + 1] = "Q"
    THEN (IF i + 2 <= Len(s) /\ s[i + 2] # "Q" THEN i + 2 ELSE 0)
    ELSE IF i + 1 <= Len(s) THEN i + 1 ELSE 0

\* re.search(...).group(1): the leftmost match, group 1 greedy up to a quote;
\* <<>> when nothing matches
FilenameMatch(s) ==
    LET starts == {i \in 1..Len(s) : GroupStart(s, i) # 0}
    IN  IF starts = {} THEN <<>>
        ELSE LET i == CHOOSE j \in starts : \A k \in starts : j <= k
                 g == GroupStart(s, i)
             IN  SubSeq(s, g, ScanTo(s, g, {"Q"}) - 1)

\* download_attachment: the path the stream is written to
DownloadPath(id, header, outp) ==
    IF ~Truthy(outp)
    THEN (IF FilenameMatch(header) # <<>> THEN FilenameMatch(header)
          ELSE <<"attachment_", id>>)
    ELSE OutVal

\* export_contract: the path the stream is written to
ExportPath(id, format, header, outp) ==
    IF ~Truthy(outp) THEN <<"contract_", id, ".", format>> ELSE OutVal

\* The calls SpecPayload starts from: a method and its arguments; for the two
\* file methods also the header of the response to their streaming GET.
PayloadCalls ==
    [m : {"create_contract"}, title : {"empty", "val"}, args : [OptFields -> ArgVals]]
    \cup [m : {"update_contract", "update_template"}, kwargs : Kwargs]
    \cup [m : {"download_attachment"}, id : {"a1"}, header : Headers, outp : ArgVals]
    \cup [m : {"export_contract"}, id : {"c1"}, format : {"pdf", "docx"},
          header : Headers, outp : ArgVals]

\* The client as constructed without an access token, about to run one
\* shaping call.
InitPayload ==
    /\ InitAuth /\ access_token = None
    /\ pcall \in PayloadCalls
    /\ pres = Pending
    /\ thr = <<>>
    /\ lock = {}
    /\ guarded = FALSE

CreateContract ==
    /\ pcall.m = "create_contract" /\ pres = Pending
    /\ pres' = RequestBody(PyNone, Dict(CreateContractData(pcall.title, "val", pcall.args)))
    /\ UNCHANGED <<pcall, authVars, concVars>>

UpdateContract ==
    /\ pcall.m = "update_contract" /\ pres = Pending
    /\ pres' = RequestBody(PyNone, Dict(pcall.kwargs))
    /\ UNCHANGED <<pcall, authVars, concVars>>

UpdateTemplate ==
    /\ pcall.m = "update_template" /\ pres = Pending
    /\ pres' = RequestBody(PyNone, Dict(pcall.kwargs))
    /\ UNCHANGED <<pcall, authVars, concVars>>

DownloadAttachment ==
    /\ pcall.m = "download_attachment" /\ pres = Pending
    /\ pres' = DownloadPath(pcall.id, pcall.header, pcall.outp)
    /\ UNCHANGED <<pcall, authVars, concVars>>

ExportContract ==
    /\ pcall.m = "export_contract" /\ pres = Pending
    /\ pres' = ExportPath(pcall.id, pcall.format, pcall.header, pcall.outp)
    /\ UNCHANGED <<pcall, authVars, concVars>>

NextPayload ==
    \/ CreateContract
    \/ UpdateContract
    \/ UpdateTemplate
    \/ DownloadAttachment
    \/ ExportContract

SpecPayload == InitPayload /\ [][NextPayload]_vars

-----------------------------------------------------------------------------
(* Two callers sharing one client (SpecConc) *)

\* Depth of nested _make_request frames of one caller at which RecursionError
\* is raised in SpecConc.
MaxConcDepth == 2

Threads == {"A", "B"}

NoAnswer == [kind |-> "none", status |-> 0, body |-> "none", tok |-> None]

\* A caller entering _make_request for a resource method.
ThreadStart ==
    [pc |-> "send", stack |-> <<Frame("api", NoHeader, None)>>, ans |-> NoAnswer,
     res |-> "none", races |-> {}]

TTop(t) == thr[t].stack[Len(thr[t].stack)]

\* The mutex around the refresh-and-retry sequence, for callers that use it:
\* it can be taken when free or already held by the caller (re-entrant, as the
\* refresh request passes through _make_request again).
MutexAvailable(t) == guarded => lock \subseteq {t}

MutexTaken(t) == IF guarded THEN {t} ELSE lock

MutexReleased(t) == lock \ {t}

\* The caller's _make_request ends with result kind k (th is thr with this
\* step's bookkeeping); a mutex the caller holds is released on the way out.
TDone(th, t, k) ==
    /\ thr' = [th EXCEPT ![t].pc = "done", ![t].res = k, ![t].stack = <<>>]
    /\ lock' = MutexReleased(t)

\* raise_for_status and the return of the frame's data, for the answer a
TFinish(th, t, a) ==
    IF a.kind # "http" THEN TDone(th, t, TransportError(a).kind)
    ELSE IF RaisesForStatus(a.status) THEN TDone(th, t, ErrorKind(a.status))
    ELSE IF Len(th[t].stack) = 1 THEN TDone(th, t, "ok")
    ELSE /\ thr' = [th EXCEPT ![t].pc = "store_at", ![t].ans = a]
         /\ lock' = lock

\* self.session.request(...): the Authorization header is read from
\* self.access_token, first for the request, again for the resend.
TSend(t) ==
    /\ thr[t].pc = "send"
    /\ LET f   == TTop(t)
           hdr == IF f.phase = 1 THEN InitialHeader(access_token)
                  ELSE ResendHeader(f.hdr, access_token)
       IN  thr' = [thr EXCEPT ![t].pc = "wait",
                              ![t].stack[Len(thr[t].stack)].hdr = hdr]
    /\ UNCHANGED <<access_token, refresh_token, nextTok, lock, guarded, seqVars, payloadVars>>

\* The caller's request in flight is answered.  The first response of a frame
\* goes to the 401 test; the response of a resend goes to raise_for_status.
TRecv(t) ==
    /\ thr[t].pc = "wait"
    /\ \E a0 \in Answers(TTop(t).ep) :
         LET a    == IF IssuesToken(a0.body) THEN [a0 EXCEPT !.tok = nextTok] ELSE a0
             full == TTop(t).ep = "refresh" /\ a.kind = "http" /\ a.status = 200
                     /\ a.body = "both"
             th   == IF full
                     THEN [thr EXCEPT ![t].races = @ \cup {<<TTop(t).rt, a.tok>>}]
                     ELSE thr
         IN  /\ nextTok' = IF IssuesToken(a.body) THEN nextTok + 1 ELSE nextTok
             /\ IF a.kind = "http" /\ TTop(t).phase = 1
                THEN /\ thr' = [th EXCEPT ![t].pc = "check", ![t].ans = a]
                     /\ lock' = lock
                ELSE TFinish(th, t, a)
    /\ UNCHANGED <<access_token, refresh_token, guarded, seqVars, payloadVars>>

\* if response.status_code == 401 and self.refresh_token: enter
\* _refresh_access_token, which reads self.refresh_token into the body of
\* POST /auth/refresh.  With the mutex in use, the caller takes it here and
\* keeps it until its refresh-and-retry sequence ends.
TCheck(t) ==
    /\ thr[t].pc = "check"
    /\ MutexAvailable(t)
    /\ IF ShouldRefresh(thr[t].ans.status, refresh_token)
       THEN IF refresh_token = None THEN TDone(thr, t, "AuthenticationError")
            ELSE IF Len(thr[t].stack) >= MaxConcDepth THEN TDone(thr, t, "RecursionError")
            ELSE /\ thr' = [thr EXCEPT ![t].pc = "send",
                               ![t].stack = Append(@, Frame("refresh", NoHeader, refresh_token))]
                 /\ lock' = MutexTaken(t)
       ELSE TFinish(thr, t, thr[t].ans)
    /\ UNCHANGED <<access_token, refresh_token, nextTok, guarded, seqVars, payloadVars>>

\* self.access_token = data['accessToken']
TStoreAccess(t) ==
    /\ thr[t].pc = "store_at"
    /\ LET st == StoreTokens(thr[t].ans.body, thr[t].ans.tok, access_token, refresh_token)
       IN  /\ access_token' = st.at
           /\ IF st.err # "none" THEN TDone(thr, t, st.err)
              ELSE /\ thr' = [thr EXCEPT ![t].pc = "store_rt"]
                   /\ lock' = lock
    /\ UNCHANGED <<refresh_token, nextTok, guarded, seqVars, payloadVars>>

\* self.refresh_token = data['refreshToken']; the refresh frame has returned
\* and the frame below goes on to resend its request.
TStoreRefresh(t) ==
    /\ thr[t].pc = "store_rt"
    /\ refresh_token' =
          StoreTokens(thr[t].ans.body, thr[t].ans.tok, access_token, refresh_token).rt
    /\ LET n == Len(thr[t].stack)
       IN  thr' = [thr EXCEPT ![t].pc = "send",
                              ![t].stack = Append(SubSeq(@, 1, n - 2),
                                                  [@[n - 1] EXCEPT !.phase = 2])]
    /\ UNCHANGED <<access_token, nextTok, lock, guarded, seqVars, payloadVars>>

\* The client after one successful login, shared by two callers that either
\* both use the mutex or both do not.
InitConc ==
    /\ access_token = 1
    /\ refresh_token = 1
    /\ nextTok = 2
    /\ stack = <<>>
    /\ pc = "idle"
    /\ op = "none"
    /\ prevOp = "none"
    /\ log = <<>>
    /\ answers = <<>>
    /\ startTok = <<None, None>>
    /\ mres = NoResult
    /\ outcome = NoResult
    /\ pcall = [m |-> "none"]
    /\ pres = Pending
    /\ thr = [t \in Threads |-> ThreadStart]
    /\ lock = {}
    /\ guarded \in BOOLEAN

NextConc ==
    \/ \E t \in Threads : TSend(t)
    \/ \E t \in Threads : TRecv(t)
    \/ \E t \in Threads : TCheck(t)
    \/ \E t \in Threads : TStoreAccess(t)
    \/ \E t \in Threads : TStoreRefresh(t)

SpecConc == InitConc /\ [][NextConc]_vars

-----------------------------------------------------------------------------
(* History helpers: answers[i] is the answer to the request log[i]. *)

RefreshCount == Cardinality({i \in DOMAIN log : log[i].ep = "refresh"})

OrigSends == Cardinality({i \in DOMAIN log : log[i].ep # "refresh"})

LastAnswer == answers[Len(answers)]

First401 == Len(answers) >= 1 /\ answers[1].kind = "http" /\ answers[1].status = 401

APIErrorKinds == {"APIError", "AuthenticationError", "ValidationError", "NetworkError"}

BothCleared == access_token = None /\ refresh_token = None

-----------------------------------------------------------------------------
(* Claims *)

\* C1: in one _make_request call made while a refresh token is held, a 401
\* on the original request leads to exactly one POST /auth/refresh; when that
\* exchange succeeds the original request is resent exactly once; a 401 on
\* the resent request raises AuthenticationError with no second refresh.
C1_OneRefreshOneRetry ==
    (startTok[2] # None /\ First401) =>
        /\ RefreshCount = 1
        /\ OrigSends <= 2
        /\ (Len(answers) >= 2 /\ answers[2].status = 200 /\ answers[2].body = "both"
               => OrigSends = 2)
        /\ (OrigSends = 2 /\ Len(answers) = Len(log) /\ LastAnswer.status = 401
               => mres.kind = "AuthenticationError" /\ RefreshCount = 1)

\* C2: whatever the server answers, one API call sends at most one
\* POST /auth/refresh and ends by returning a result or raising an API error.
C2_NoRefreshLoop ==
    /\ RefreshCount <= 1
    /\ (pc = "mr_done" => mres.kind \in {"ok"} \cup APIErrorKinds)

\* C3: the held pair is both-cleared, or the pair the constructor left, or a
\* pair issued together by one login/refresh response; never the access
\* token of one response with the refresh token of another or of none.
C3_PairAtomic ==
    \/ access_token = refresh_token
    \/ (access_token = CallerTok /\ refresh_token = None)

\* C4: every request sent while an access token is held carries
\* Authorization: Bearer <the access token held when it is sent>; the resend
\* after a successful refresh carries the newly issued access token, and the
\* call after a successful login carries the access token login returned.
C4_BearerIsHeldToken ==
    /\ \A i \in DOMAIN log : log[i].held # None => log[i].auth = Bearer(log[i].held)
    /\ \A i \in DOMAIN log :
          (i >= 2 /\ answers[i-1].status = 200 /\ answers[i-1].body = "both")
             => log[i].auth = Bearer(answers[i-1].tok)
    /\ (pc = "idle" /\ op = "login" /\ outcome.kind = "ok") => access_token = outcome.tok
    /\ (Len(log) >= 1 /\ startTok[1] # None) => log[1].auth = Bearer(startTok[1])

\* A request was resent after a refresh, with another bearer than the
\* rejected one.
C4_Witness ==
    \E i \in DOMAIN log :
        /\ i >= 2 /\ log[i].ep = "api"
        /\ log[1].auth # NoHeader
        /\ log[i].auth # log[1].auth
        /\ log[i].auth = Bearer(answers[i-1].tok)

\* C5: when logout ends, on every exit path, both tokens are None; the next
\* request carries no Authorization header and a 401 on it starts no refresh.
C5_LogoutClears ==
    /\ (pc = "idle" /\ op = "logout") => BothCleared
    /\ (prevOp = "logout" /\ Len(log) >= 1) =>
          \A i \in DOMAIN log : log[i].auth = NoHeader /\ log[i].ep # "refresh"

\* logout ended by raising, after a refresh inside it, with tokens held before.
C5_Witness ==
    /\ pc = "idle" /\ op = "logout"
    /\ startTok[1] # None /\ startTok[2] # None
    /\ RefreshCount >= 1
    /\ outcome.kind \notin {"ok", "none"}
    /\ BothCleared

\* C6 (as claimed): a failure of logout's server call is swallowed, logout
\* returns normally; every other operation's failure is raised.
C6_LogoutSwallowsFailure ==
    pc = "idle" =>
        /\ (op = "logout" => outcome.kind = "ok")
        /\ (op \in {"login", "api"} /\ mres.kind # "ok" => outcome = mres)

\* C6 (amended): a failure of logout's server call is raised to the caller
\* after both tokens are cleared, like every other operation's failure.
C6_LogoutRaisesAfterClearing ==
    (pc = "idle" /\ op \in Ops /\ mres.kind # "ok") =>
        /\ outcome = mres
        /\ (op = "logout" => BothCleared)

\* logout's server call failed and logout raised that failure.
C6_Witness ==
    /\ pc = "idle" /\ op = "logout"
    /\ mres.kind \in APIErrorKinds
    /\ outcome = mres
    /\ startTok[1] # None

\* C7: with no refresh token held, a 401 propagates as AuthenticationError:
\* the request is sent once, no refresh is sent, the tokens stay unchanged.
C7_NoRefreshTokenPropagates ==
    (startTok[2] = None /\ First401) =>
        /\ Len(log) = 1
        /\ RefreshCount = 0
        /\ mres.kind = "AuthenticationError"
        /\ mres.status = 401
        /\ (pc = "mr_done" => <<access_token, refresh_token>> = startTok)

\* An access token but no refresh token was held and the request got a 401.
C7_Witness ==
    /\ pc = "mr_done"
    /\ startTok = <<CallerTok, None>>
    /\ First401

\* C8: a failed call raises NetworkError when no response was obtained,
\* AuthenticationError on a final 401, ValidationError on 400 and APIError on
\* any other non-2xx status; HTTP failures carry the status and the body's
\* code, or HTTP_<status> when the body is absent or not JSON.
C8_ErrorKindByOutcome ==
    (pc = "mr_done" /\ mres.kind # "ok") =>
        LET la == LastAnswer
            carries == /\ mres.status = la.status
                       /\ (la.body = "coded" => mres.code = <<"INVALID_TITLE">>)
                       /\ (la.body = "nonjson" => mres.code = <<"HTTP_", la.status>>)
        IN  /\ (la.kind \in {"conn", "timeout"} => mres.kind = "NetworkError")
            /\ (la.kind = "http" /\ la.status = 401 => mres.kind = "AuthenticationError" /\ carries)
            /\ (la.kind = "http" /\ la.status = 400 => mres.kind = "ValidationError" /\ carries)
            /\ (la.kind = "http" /\ la.status \notin {400, 401} /\ la.status \notin 200..299
                   => mres.kind = "APIError" /\ carries)

Ran == pres # Pending

IsCreate == Ran /\ pcall.m = "create_contract"

IsUpdate == Ran /\ pcall.m \in {"update_contract", "update_template"}

UpdateForwardsKwargs == IsUpdate => pres = <<"json", pcall.kwargs>>

\* C9 (as claimed): create_contract's body has a key for an optional field
\* exactly when the caller supplied it (an empty string, empty list or 0 that
\* was supplied is present); update bodies hold exactly the keyword fields.
C9_KeyIffSupplied ==
    /\ IsCreate =>
          /\ pres[1] = "json"
          /\ \A f \in OptFields :
                /\ KeyOf(f) \in DOMAIN pres[2] <=> pcall.args[f] # "None"
                /\ KeyOf(f) \in DOMAIN pres[2] => pres[2][KeyOf(f)] = pcall.args[f]
    /\ UpdateForwardsKwargs

\* C9 (amended): create_contract's body has a key for an optional field
\* exactly when the supplied value is truthy, or, for value, is not None
\* (0 included); an omitted optional and a supplied empty string, list or
\* dict are absent, never null; title and type are always present; update
\* bodies hold exactly the keyword fields passed, with their values.
C9_KeyIffTruthyOrValueNotNone ==
    /\ IsCreate =>
          /\ pres[1] = "json"
          /\ {"title", "type"} \subseteq DOMAIN pres[2]
          /\ DOMAIN pres[2] \subseteq {"title", "type"} \cup {KeyOf(f) : f \in OptFields}
          /\ pres[2]["title"] = pcall.title
          /\ \A f \in OptFields :
                /\ KeyOf(f) \in DOMAIN pres[2] <=>
                      IF f = "value" THEN pcall.args[f] \in {"empty", "val"}
                      ELSE pcall.args[f] = "val"
                /\ KeyOf(f) \in DOMAIN pres[2] => pres[2][KeyOf(f)] = pcall.args[f]
    /\ UpdateForwardsKwargs

\* create_contract was called with value 0, an empty description and an
\* omitted currency: only value made it into the body.
C9_Witness ==
    /\ IsCreate
    /\ pcall.args["value"] = "empty" /\ "value" \in DOMAIN pres[2]
    /\ pcall.args["description"] = "empty" /\ "description" \notin DOMAIN pres[2]
    /\ pcall.args["currency"] = "None" /\ "currency" \notin DOMAIN pres[2]
    /\ pcall.args["tags"] = "val" /\ "tags" \in DOMAIN pres[2]

\* The value of the header's filename parameter starting at position i:
\* quoted, up to the closing quote; unquoted, up to the next semicolon.
ParamValue(s, i) ==
    IF i + 1 <= Len(s) /\ s[i + 1] = "Q"
    THEN SubSeq(s, i + 2, ScanTo(s, i + 2, {"Q"}) - 1)
    ELSE SubSeq(s, i + 1, ScanTo(s, i + 1, {"Q", ";"}) - 1)

FilenameParams(s) == {i \in 1..Len(s) : s[i] = "F" /\ ParamValue(s, i) # <<>>}

\* C10: for download_attachment and export_contract, without an output path
\* the file is named by the Content-Disposition filename parameter when the
\* header carries one, by a name synthesized from the resource id otherwise;
\* a supplied output path is used unchanged.
C10_FilenameFromHeader ==
    (Ran /\ pcall.m \in {"download_attachment", "export_contract"}) =>
        LET h == pcall.header
            synth == IF pcall.m = "download_attachment"
                     THEN <<"attachment_", pcall.id>>
                     ELSE <<"contract_", pcall.id, ".", pcall.format>>
        IN  /\ pcall.outp = "val" => pres = OutVal
            /\ pcall.outp = "None" =>
                  IF FilenameParams(h) # {}
                  THEN pres = ParamValue(h, CHOOSE i \in FilenameParams(h) :
                                                \A k \in FilenameParams(h) : i <= k)
                  ELSE pres = synth

\* C12: a login call that raises (400, 401, another error status or a network
\* failure) leaves access_token and refresh_token as they were before the
\* call, with or without a refresh token held; the tokens are stored only
\* from the response of a login that succeeds.
C12_FailedLoginKeepsTokens ==
    (pc = "idle" /\ op = "login") =>
        /\ outcome.kind \in APIErrorKinds => <<access_token, refresh_token>> = startTok
        /\ <<access_token, refresh_token>> # startTok =>
              /\ outcome.kind = "ok"
              /\ <<access_token, refresh_token>> = <<outcome.tok, outcome.tok>>

ConcDone == \A t \in Threads : thr[t].pc = "done"

\* Both callers sent a refresh exchange carrying the same refresh token, and
\* each was answered with a token pair.
SameTokenRace ==
    \E x \in thr["A"].races, y \in thr["B"].races : x[1] = y[1]

\* The client holds the pair of the most recent token response.
HoldsLatest == <<access_token, refresh_token>> = <<nextTok - 1, nextTok - 1>>

StaleOrMixed == ConcDone /\ SameTokenRace /\ ~HoldsLatest

\* C11: two callers sharing one client, each answered 401 with a refresh
\* token held: with the refresh-and-retry sequence guarded by a mutex, no
\* state is reachable where both refreshed with the same refresh token and
\* the client ends holding a pair other than the most recently issued one;
\* without the mutex such a state is reachable (C11_Witness).
C11_MutexPreventsStalePair == guarded => ~StaleOrMixed

\* Without the mutex: both callers refreshed with the same refresh token and
\* the pair issued first overwrote the pair issued last.
C11_Witness ==
    /\ ~guarded
    /\ StaleOrMixed
    /\ access_token = refresh_token
    /\ access_token < nextTok - 1

====
